---- MODULE Spec2Model ----
(***************************************************************************)
(* Model of the Ginkgo executor of testkube (pkg/runner/runner.go):        *)
(* parameter resolution, argument construction, the Run pipeline and the   *)
(* JUnit result mapper.                                                    *)
(*                                                                         *)
(* A Go string is a sequence of characters.  The alphabet is made of the   *)
(* space character and of symbols such as "--focus" that stand for one     *)
(* indivisible run of non-space characters, so strings.Split on " " is     *)
(* computed on the sequence exactly as Go computes it on the bytes.        *)
(***************************************************************************)
EXTENDS Integers, Sequences, FiniteSets, TLC

(* ----------------------------- bounds ---------------------------------- *)
MaxVars == 2      \* entries of execution.Variables
MaxArgs == 2      \* positional arguments of execution.Args
MaxSuites == 2    \* suites of a JUnit report given to the mapper
MaxCases == 2     \* test cases of one suite

(* ----------------------------- strings --------------------------------- *)
SP == " "
EmptyStr == << >>

\* the target-path key, excluded from blind concatenation
TestPackageKey == "GinkgoTestPackage"

RECURSIVE Split(_)
\* strings.Split(s, " "): one token more than there are spaces; "" gives [""]
Split(s) ==
  IF \A i \in 1..Len(s) : s[i] # SP
    THEN << s >>
    ELSE LET i == CHOOSE j \in 1..Len(s) :
                     s[j] = SP /\ \A k \in 1..(j-1) : s[k] # SP
         IN  << SubSeq(s, 1, i-1) >> \o Split(SubSeq(s, i+1, Len(s)))

RECURSIVE JoinPath(_)
\* filepath.Join: empty elements are ignored, the rest joined by a separator
JoinPath(elems) ==
  IF elems = << >> THEN EmptyStr
  ELSE LET rest == JoinPath(Tail(elems))
       IN  IF Head(elems) = EmptyStr THEN rest
           ELSE IF rest = EmptyStr THEN Head(elems)
           ELSE Head(elems) \o << "/" >> \o rest

RECURSIVE Flatten(_)
Flatten(ss) == IF ss = << >> THEN << >> ELSE Head(ss) \o Flatten(Tail(ss))

\* Go map lookup: the zero value "" for a missing key
MapGet(m, k) == IF k \in DOMAIN m THEN m[k] ELSE EmptyStr

\* every order in which Go may range over a map with key set S
Orders(S) ==
  { o \in [1..Cardinality(S) -> S] : \A i, j \in DOMAIN o : o[i] = o[j] => i = j }

(* -------------------------- Parameter Table ---------------------------- *)
\* the keys of the table that the model carries: the target path, the three
\* report kinds, one flag with a non-empty default and one with an empty default
\* (the other keys of the table are flags of one of these two sorts)
ParamKeys ==
  { TestPackageKey, "GinkgoRecursive", "GinkgoFocusFilter",
    "GinkgoJsonReport", "GinkgoJunitReport", "GinkgoTeamCityReport" }

InitializeGinkgoParams ==
  [ k \in ParamKeys |->
      CASE k = TestPackageKey         -> EmptyStr
        [] k = "GinkgoRecursive"      -> << "-r" >>
        [] k = "GinkgoFocusFilter"    -> EmptyStr
        [] k = "GinkgoJsonReport"     -> EmptyStr
        [] k = "GinkgoJunitReport"    -> << "--junit-report", SP, "report.xml" >>
        [] k = "GinkgoTeamCityReport" -> EmptyStr ]

ginkgoDefaultParams == InitializeGinkgoParams

(* ------------------------- Parameter Resolver -------------------------- *)
\* a resolver that keeps the empty defaults in the resolved map
FindGinkgoParamsKeepsEmptyDefaults(variables, defaultParams) ==
  [ k \in DOMAIN defaultParams |-> IF k \in DOMAIN variables
                                     THEN variables[k].Value
                                     ELSE defaultParams[k] ]

\* the resolved map returned by FindGinkgoParams
FindGinkgoParams(variables, defaultParams) ==
  LET kept == { k \in DOMAIN defaultParams :
                  k \in DOMAIN variables \/ defaultParams[k] # EmptyStr }
  IN  [ k \in kept |-> IF k \in DOMAIN variables
                          THEN variables[k].Value
                          ELSE defaultParams[k] ]

\* execution.Variables after the deletes of FindGinkgoParams
RemainingVariables(variables, defaultParams) ==
  [ k \in (DOMAIN variables) \ (DOMAIN defaultParams) |-> variables[k] ]

(* --------------------------- Argument Builder -------------------------- *)
\* a builder that splits only the non-empty values
BuildGinkgoArgsSkipsEmptyValues(params, path, runPath, order) ==
  LET flagKeys == SelectSeq(order, LAMBDA k : k # TestPackageKey /\ params[k] # EmptyStr)
      flagArgs == Flatten([ i \in 1..Len(flagKeys) |-> Split(params[flagKeys[i]]) ])
      pkg      == MapGet(params, TestPackageKey)
  IN  IF pkg # EmptyStr
        THEN IF path # runPath
               THEN Append(flagArgs, JoinPath(<< path, pkg >>))
               ELSE Append(flagArgs, pkg)
        ELSE IF path # runPath
               THEN Append(flagArgs, path)
               ELSE flagArgs

\* a builder that never joins the target path onto the content path
BuildGinkgoArgsBareTargetPath(params, path, runPath, order) ==
  LET flagKeys == SelectSeq(order, LAMBDA k : k # TestPackageKey)
      flagArgs == Flatten([ i \in 1..Len(flagKeys) |-> Split(params[flagKeys[i]]) ])
      pkg      == MapGet(params, TestPackageKey)
  IN  IF pkg # EmptyStr
        THEN Append(flagArgs, pkg)
        ELSE IF path # runPath
               THEN Append(flagArgs, path)
               ELSE flagArgs

\* order: the order in which the range over params visits its keys
BuildGinkgoArgs(params, path, runPath, order) ==
  LET flagKeys == SelectSeq(order, LAMBDA k : k # TestPackageKey)
      flagArgs == Flatten([ i \in 1..Len(flagKeys) |-> Split(params[flagKeys[i]]) ])
      pkg      == MapGet(params, TestPackageKey)
  IN  IF pkg # EmptyStr
        THEN IF path # runPath
               THEN Append(flagArgs, JoinPath(<< path, pkg >>))
               ELSE Append(flagArgs, pkg)
        ELSE IF path # runPath
               THEN Append(flagArgs, path)
               ELSE flagArgs

(* ------------------------ Pass-Through Flag Builder -------------------- *)
\* a builder that prepends the separator also to an empty vector
BuildGinkgoPassThroughFlagsBareSeparator(variables, args, order) ==
  LET flags == [ i \in 1..Len(order) |->
                   << "--" >> \o variables[order[i]].Name \o << "=" >>
                              \o variables[order[i]].Value ]
  IN  << << "--" >> >> \o flags \o args

\* order: the order in which the range over execution.Variables visits its keys
BuildGinkgoPassThroughFlags(variables, args, order) ==
  LET flags == [ i \in 1..Len(order) |->
                   << "--" >> \o variables[order[i]].Name \o << "=" >>
                              \o variables[order[i]].Value ]
      all   == flags \o args
  IN  IF Len(all) > 0 THEN << << "--" >> >> \o all ELSE all

(* ------------------------------ Validate ------------------------------- *)
NilErr == "nil"
NoContent == [ Nil |-> TRUE ]        \* execution.Content == nil
NoRepository == [ Nil |-> TRUE ]     \* execution.Content.Repository == nil

\* a validation that asks for a branch and does not accept a commit instead
ValidateBranchOnly(content) ==
  IF content.Nil THEN "validate: no content"
  ELSE IF content.Repository.Nil THEN "validate: repository is nil"
  ELSE IF content.Repository.Branch = EmptyStr THEN "validate: no branch or commit"
  ELSE IF content.IsFile THEN "validate: single file"
  ELSE NilErr

\* the error of the first failing check, NilErr when every check passes
Validate(content) ==
  IF content.Nil THEN "validate: no content"
  ELSE IF content.Repository.Nil THEN "validate: repository is nil"
  ELSE IF content.Repository.Branch = EmptyStr /\ content.Repository.Commit = EmptyStr
    THEN "validate: no branch or commit"
  ELSE IF content.IsFile THEN "validate: single file"
  ELSE NilErr

(* ------------------------------ Result Mapper -------------------------- *)
FAILED == "failed"
PASSED == "passed"

MapStatus(in) == IF in = "passed" THEN PASSED ELSE FAILED

\* the zero value of testkube.ExecutionResult
UnsetResult ==
  [ Status |-> "unset", Output |-> EmptyStr, OutputType |-> "", Steps |-> << >>,
    Errors |-> << >> ]

\* the cases of all suites, in report order, each with its suite's name
SuiteCases(suites) ==
  Flatten([ i \in 1..Len(suites) |->
              [ j \in 1..Len(suites[i].Tests) |->
                  [ Suite |-> suites[i].Name, Test |-> suites[i].Tests[j] ] ] ])

MapJunitToExecutionResults(out, suites) ==
  LET cases == SuiteCases(suites)
      steps == [ i \in 1..Len(cases) |->
                   [ Name     |-> << cases[i].Suite, " - ", cases[i].Test.Name >>,
                     Duration |-> cases[i].Test.Duration,
                     Status   |-> MapStatus(cases[i].Test.Status) ] ]
      overallStatusFailed == \E i \in 1..Len(cases) : cases[i].Test.Status = FAILED
  IN  [ Status     |-> IF overallStatusFailed THEN FAILED ELSE PASSED,
        Output     |-> out,
        OutputType |-> "text/plain",
        Steps      |-> steps,
        Errors     |-> << >> ]

\* result.WithErrors(errs...): the non-nil errors handed to the result
WithErrors(result, errs) ==
  [ result EXCEPT !.Errors = SelectSeq(errs, LAMBDA e : e # NilErr) ]

(* ------------------------------- inputs -------------------------------- *)
\* sequences over S of length at most n
SeqUpTo(S, n) == UNION { [1..m -> S] : m \in 0..n }

\* the variable names an Execution may carry: recognized keys and two others
VarKeys ==
  { TestPackageKey, "GinkgoRecursive", "GinkgoFocusFilter", "GinkgoJsonReport",
    "GinkgoJunitReport", "custom", "other" }

\* the values an Execution may give to a variable
VarValues(k) ==
  CASE k = TestPackageKey      -> { << "pkgs" >> }
    [] k = "GinkgoRecursive"   -> { EmptyStr }
    [] k = "GinkgoFocusFilter" -> { << "MyFeature" >> }
    [] k = "GinkgoJsonReport"  -> { << "--json-report", SP, "report.json" >> }
    [] k = "GinkgoJunitReport" -> { EmptyStr, << "--junit-report=out.xml" >>,
                                    << "--junit-report", SP, "out.xml" >> }
    [] k = "custom"            -> { << "1" >> }
    [] k = "other"             -> { EmptyStr }

\* testkube.Variables: a map from name to a Variable carrying that name
VariableMaps ==
  UNION { { [ k \in K |-> [ Name |-> << k >>, Value |-> f[k] ] ] :
              f \in { g \in [K -> UNION { VarValues(k) : k \in K }] :
                        \A k \in K : g[k] \in VarValues(k) } } :
          K \in { J \in SUBSET VarKeys : Cardinality(J) <= MaxVars } }

\* the positional arguments: the first n of a fixed list, n up to MaxArgs
ArgList == << << "extra" >>, << "more" >>, << "last" >>, << "final" >> >>
ArgSeqs == { SubSeq(ArgList, 1, n) : n \in 0..MaxArgs }

Repositories ==
  [ Nil : { FALSE }, Branch : { EmptyStr, << "main" >> },
    Commit : { EmptyStr, << "abc" >> }, WorkingDir : { EmptyStr, << "wd" >> },
    Path : { EmptyStr, << "wd" >> }, Username : { EmptyStr }, Token : { EmptyStr } ]

Contents ==
  { NoContent } \cup
  [ Nil : { FALSE }, IsFile : BOOLEAN, Repository : { NoRepository } \cup Repositories ]

EnvMaps == { [ k \in { "FOO" } |-> << "1" >> ] }

Executions ==
  [ Id : { "exec-1" }, Content : Contents, Variables : VariableMaps,
    Args : ArgSeqs, Envs : EnvMaps ]

\* the runner's configuration read from the environment by NewGinkgoRunner
RunnerParams ==
  [ GitUsername : { << "user" >> }, GitToken : { << "token" >> },
    ScrapperEnabled : BOOLEAN, DataDir : { << "data" >> } ]

\* the JUnit reports with at most ns suites of at most nc cases
RawStatuses == { "passed", "failed", "skipped", "error" }
TestCases == [ Name : { "t1" }, Duration : { "1s" }, Status : RawStatuses ]
Reports(ns, nc) == SeqUpTo([ Name : { "A" }, Tests : SeqUpTo(TestCases, nc) ], ns)

(* ------------------------------ state ---------------------------------- *)
VARIABLES
  pc,            \* the stage Run is about to execute, or how it ended
  r,             \* the GinkgoRunner's Params
  input,         \* the Execution as the caller passed it (never changes)
  execution,     \* the Execution as Run sees it (credentials stamped, variables consumed)
  environ,       \* the process environment written by os.Setenv
  path,          \* content path
  runPath,       \* working directory of the external binary
  ginkgoParams,  \* Resolved Parameters
  ginkgoArgs,    \* argument vector of BuildGinkgoArgs
  ginkgoPassThroughFlags,
  ginkgoArgsAndFlags,  \* the argument vector handed to the external binary
  reportsPath,
  out,           \* captured (obfuscated) output of the external binary
  err,           \* error of the invocation
  serr,          \* error of junit.IngestFile
  result,        \* the returned ExecutionResult
  retErr,        \* the returned error
  calls,         \* external calls made so far, in order
  call           \* one call of a pure function: its inputs and results

vars ==
  << pc, r, input, execution, environ, path, runPath, ginkgoParams, ginkgoArgs,
     ginkgoPassThroughFlags, ginkgoArgsAndFlags, reportsPath, out, err, serr, result, retErr, calls, call >>

runVars ==
  << pc, r, input, execution, environ, path, runPath, ginkgoParams, ginkgoArgs,
     ginkgoPassThroughFlags, ginkgoArgsAndFlags, reportsPath, out, err, serr, result, retErr, calls >>

NoCall == [ op |-> "none" ]

\* an external call and whether it succeeded; arg names the report kind of a rename
Ev(op, ok) == [ op |-> op, arg |-> "", ok |-> ok ]
EvOn(op, arg, ok) == [ op |-> op, arg |-> arg, ok |-> ok ]

\* the locals of Run before their first assignment
RunLocalsInit ==
  /\ environ = << >>
  /\ path = EmptyStr
  /\ runPath = EmptyStr
  /\ ginkgoParams = << >>
  /\ ginkgoArgs = << >>
  /\ ginkgoPassThroughFlags = << >>
  /\ ginkgoArgsAndFlags = << >>
  /\ reportsPath = EmptyStr
  /\ out = EmptyStr
  /\ err = NilErr
  /\ serr = NilErr
  /\ result = UnsetResult
  /\ retErr = NilErr
  /\ calls = << >>

Init ==
  /\ pc = "Validating"
  /\ r \in RunnerParams
  /\ input \in Executions
  /\ execution = input
  /\ RunLocalsInit
  /\ call = NoCall

\* return result, e
Return(res, e) ==
  /\ pc' = "Returned"
  /\ result' = res
  /\ retErr' = e

(* ------------------------------- Run ----------------------------------- *)
\* Validate, then stamp the git credentials onto the repository
RunValidate ==
  /\ pc = "Validating"
  /\ LET e == Validate(execution.Content) IN
       IF e # NilErr
         THEN /\ Return(result, e)
              /\ UNCHANGED execution
         ELSE /\ pc' = "EnvPreparing"
              /\ execution' =
                   IF r.GitUsername # EmptyStr /\ r.GitToken # EmptyStr
                      /\ ~execution.Content.Nil /\ ~execution.Content.Repository.Nil
                     THEN [ execution EXCEPT
                              !.Content.Repository.Username = r.GitUsername,
                              !.Content.Repository.Token = r.GitToken ]
                     ELSE execution
              /\ UNCHANGED << result, retErr >>
  /\ UNCHANGED << r, input, environ, path, runPath, ginkgoParams, ginkgoArgs,
                  ginkgoPassThroughFlags, ginkgoArgsAndFlags, reportsPath, out, err, serr, calls, call >>

\* export execution.Envs with os.Setenv; the first failure aborts
RunSetenv ==
  /\ pc = "EnvPreparing"
  /\ \/ /\ pc' = "Fetching"
        /\ environ' = execution.Envs
        /\ calls' = calls \o [ i \in 1..Cardinality(DOMAIN execution.Envs) |->
                                  Ev("Setenv", TRUE) ]
        /\ UNCHANGED << result, retErr >>
     \/ /\ DOMAIN execution.Envs # { }
        /\ Return(result, "setting env var")
        /\ calls' = Append(calls, Ev("Setenv", FALSE))
        /\ UNCHANGED environ
  /\ UNCHANGED << r, input, execution, path, runPath, ginkgoParams, ginkgoArgs,
                  ginkgoPassThroughFlags, ginkgoArgsAndFlags, reportsPath, out, err, serr, call >>

\* the directory the Fetcher checks the repository out into
FetchedPath == JoinPath(<< << "data" >>, << "repo" >> >>)

RunFetch ==
  /\ pc = "Fetching"
  /\ \/ /\ pc' = "ArgBuilding"
        /\ calls' = Append(calls, Ev("Fetch", TRUE))
        /\ path' = FetchedPath
        /\ UNCHANGED << result, retErr >>
     \/ /\ Return(result, "fetch error")
        /\ calls' = Append(calls, Ev("Fetch", FALSE))
        /\ UNCHANGED path
  /\ UNCHANGED << r, input, execution, environ, runPath, ginkgoParams, ginkgoArgs,
                  ginkgoPassThroughFlags, ginkgoArgsAndFlags, reportsPath, out, err, serr, call >>

\* FindGinkgoParams, the path/run-path pair, BuildGinkgoArgs, BuildGinkgoPassThroughFlags
RunBuildArgs ==
  /\ pc = "ArgBuilding"
  /\ LET params == FindGinkgoParams(execution.Variables, ginkgoDefaultParams)
         left   == RemainingVariables(execution.Variables, ginkgoDefaultParams)
         repo   == execution.Content.Repository
         wd     == ~repo.Nil /\ repo.WorkingDir # EmptyStr
         rp     == IF wd THEN JoinPath(<< r.DataDir, << "repo" >>, repo.WorkingDir >>)
                         ELSE path
         p      == IF wd THEN JoinPath(<< r.DataDir, << "repo" >>, repo.Path >>)
                         ELSE path
     IN  /\ ginkgoParams' = params
         /\ execution' = [ execution EXCEPT !.Variables = left ]
         /\ runPath' = rp
         /\ path' = p
         /\ \E order \in Orders(DOMAIN params) :
              ginkgoArgs' = BuildGinkgoArgs(params, p, rp, order)
         /\ \E order \in Orders(DOMAIN left) :
              ginkgoPassThroughFlags' =
                BuildGinkgoPassThroughFlags(left, execution.Args, order)
         /\ ginkgoArgsAndFlags' = ginkgoArgs' \o ginkgoPassThroughFlags'
  /\ pc' = "ReportDirPreparing"
  /\ UNCHANGED << r, input, environ, reportsPath, out, err, serr, result, retErr,
                  calls, call >>

\* a reports-directory stage that goes on after a failed os.Mkdir
RunReportsDirIgnoresMkdirError ==
  /\ pc = "ReportDirPreparing"
  /\ reportsPath' = JoinPath(<< path, << "reports" >> >>)
  /\ \/ /\ \E found \in BOOLEAN : calls' = Append(calls, EvOn("Stat", "", found))
     \/ calls' = calls \o << EvOn("Stat", "IsNotExist", FALSE), Ev("Mkdir", TRUE) >>
     \/ calls' = calls \o << EvOn("Stat", "IsNotExist", FALSE), Ev("Mkdir", FALSE) >>
  /\ pc' = "Invoking"
  /\ UNCHANGED << r, input, execution, environ, path, runPath, ginkgoParams,
                  ginkgoArgs, ginkgoPassThroughFlags, ginkgoArgsAndFlags, out, err,
                  serr, result, retErr, call >>

\* os.Stat of the reports directory, os.Mkdir when it does not exist
RunReportsDir ==
  /\ pc = "ReportDirPreparing"
  /\ reportsPath' = JoinPath(<< path, << "reports" >> >>)
  /\ \/ \* the directory exists, or os.Stat fails with another error than IsNotExist
        /\ \E found \in BOOLEAN : calls' = Append(calls, EvOn("Stat", "", found))
        /\ pc' = "Invoking"
        /\ UNCHANGED << result, retErr >>
     \/ \* the directory does not exist and os.Mkdir creates it
        /\ calls' = calls \o << EvOn("Stat", "IsNotExist", FALSE), Ev("Mkdir", TRUE) >>
        /\ pc' = "Invoking"
        /\ UNCHANGED << result, retErr >>
     \/ \* the directory does not exist and os.Mkdir fails
        /\ calls' = calls \o << EvOn("Stat", "IsNotExist", FALSE), Ev("Mkdir", FALSE) >>
        /\ Return(result, "mkdir error")
  /\ UNCHANGED << r, input, execution, environ, path, runPath, ginkgoParams,
                  ginkgoArgs, ginkgoPassThroughFlags, ginkgoArgsAndFlags, out, err, serr, call >>

\* the materialised secret values the env manager redacts from the output
SecretValues == { "s3cr3t" }
Obfuscate(raw) ==
  [ i \in 1..Len(raw) |-> IF raw[i] \in SecretValues THEN "****" ELSE raw[i] ]

\* what executor.Run may return: the combined output and the error
Invocations ==
  { [ raw |-> << "PASS" >>, err |-> NilErr ],
    [ raw |-> << "FAIL", "s3cr3t" >>, err |-> "exit status 1" ] }

\* executor.Run and envManager.Obfuscate; an error does not end Run
RunInvoke ==
  /\ pc = "Invoking"
  /\ \E inv \in Invocations :
       /\ out' = Obfuscate(inv.raw)
       /\ err' = inv.err
  /\ calls' = Append(calls, Ev("Run", err' = NilErr))
  /\ pc' = "RelocatingJson"
  /\ UNCHANGED << r, input, execution, environ, path, runPath, ginkgoParams,
                  ginkgoArgs, ginkgoPassThroughFlags, ginkgoArgsAndFlags,
                  reportsPath, serr, result, retErr, call >>

\* one "if ginkgoParams[key] != "" { MoveReport(..., Split(...)[1]) }" block
Relocate(key, next) ==
  LET value == MapGet(ginkgoParams, key) IN
    IF value = EmptyStr
      THEN /\ pc' = next
           /\ UNCHANGED << calls, result, retErr >>
    ELSE IF Len(Split(value)) < 2
      THEN /\ pc' = "Panicked"        \* index out of range
           /\ UNCHANGED << calls, result, retErr >>
    ELSE \/ /\ calls' = Append(calls, EvOn("Rename", key, TRUE))
            /\ pc' = next
            /\ UNCHANGED << result, retErr >>
         \/ /\ calls' = Append(calls, EvOn("Rename", key, FALSE))
            /\ Return(result, "move error")

RunMoveJson ==
  /\ pc = "RelocatingJson"
  /\ Relocate("GinkgoJsonReport", "RelocatingJunit")
  /\ UNCHANGED << r, input, execution, environ, path, runPath, ginkgoParams,
                  ginkgoArgs, ginkgoPassThroughFlags, ginkgoArgsAndFlags,
                  reportsPath, out, err, serr, call >>

RunMoveJunit ==
  /\ pc = "RelocatingJunit"
  /\ Relocate("GinkgoJunitReport", "RelocatingTeamCity")
  /\ UNCHANGED << r, input, execution, environ, path, runPath, ginkgoParams,
                  ginkgoArgs, ginkgoPassThroughFlags, ginkgoArgsAndFlags,
                  reportsPath, out, err, serr, call >>

RunMoveTeamCity ==
  /\ pc = "RelocatingTeamCity"
  /\ Relocate("GinkgoTeamCityReport", "ResultMapping")
  /\ UNCHANGED << r, input, execution, environ, path, runPath, ginkgoParams,
                  ginkgoArgs, ginkgoPassThroughFlags, ginkgoArgsAndFlags,
                  reportsPath, out, err, serr, call >>

\* what junit.IngestFile may return inside Run: a report and no error, or an error
Ingestions ==
  { [ suites |-> s, serr |-> NilErr ] :
      s \in { << >> } \cup
            { << [ Name |-> "A", Tests |-> << [ Name |-> "t1", Duration |-> "1s",
                                               Status |-> st ] >> ] >> :
                st \in { "passed", "failed" } } }
    \cup { [ suites |-> << >>, serr |-> "parse error" ] }

\* junit.IngestFile on the relocated JUnit report, then MapJunitToExecutionResults
RunMapResult ==
  /\ pc = "ResultMapping"
  /\ IF Len(Split(MapGet(ginkgoParams, "GinkgoJunitReport"))) < 2
       THEN /\ pc' = "Panicked"       \* index out of range
            /\ UNCHANGED << serr, result, calls >>
       ELSE /\ \E ing \in Ingestions :
                 /\ serr' = ing.serr
                 /\ result' = MapJunitToExecutionResults(out, ing.suites)
            /\ calls' = Append(calls, Ev("IngestFile", serr' = NilErr))
            /\ pc' = "ArtifactScraping"
  /\ UNCHANGED << r, input, execution, environ, path, runPath, ginkgoParams,
                  ginkgoArgs, ginkgoPassThroughFlags, ginkgoArgsAndFlags,
                  reportsPath, out, err, retErr, call >>

\* the optional Scraper call and the two final returns
RunScrape ==
  /\ pc = "ArtifactScraping"
  /\ \/ /\ r.ScrapperEnabled
        /\ calls' = Append(calls, Ev("Scrape", FALSE))
        /\ Return(WithErrors(result, << "scrape artifacts error" >>), NilErr)
     \/ /\ r.ScrapperEnabled
        /\ calls' = Append(calls, Ev("Scrape", TRUE))
        /\ Return(WithErrors(result, << err, serr >>), NilErr)
     \/ /\ ~r.ScrapperEnabled
        /\ UNCHANGED calls
        /\ Return(WithErrors(result, << err, serr >>), NilErr)
  /\ UNCHANGED << r, input, execution, environ, path, runPath, ginkgoParams,
                  ginkgoArgs, ginkgoPassThroughFlags, ginkgoArgsAndFlags,
                  reportsPath, out, err, serr, call >>

Next ==
  \/ RunValidate
  \/ RunSetenv
  \/ RunFetch
  \/ RunBuildArgs
  \/ RunReportsDir
  \/ RunInvoke
  \/ RunMoveJson
  \/ RunMoveJunit
  \/ RunMoveTeamCity
  \/ RunMapResult
  \/ RunScrape

Spec == Init /\ [][Next]_vars

(* ------------------- the functions called on their own ------------------ *)
\* a runner and an Execution that are not running
IdleRunner ==
  [ GitUsername |-> << "user" >>, GitToken |-> << "token" >>,
    ScrapperEnabled |-> FALSE, DataDir |-> << "data" >> ]
IdleExecution ==
  [ Id |-> "exec-1", Content |-> NoContent, Variables |-> << >>, Args |-> << >>,
    Envs |-> << >> ]

\* the Resolved Parameters FindGinkgoParams can return
ResolvedParams == { FindGinkgoParams(v, ginkgoDefaultParams) : v \in VariableMaps }

\* the path/run-path pairs Run can hand to BuildGinkgoArgs
PathPairs ==
  { [ path |-> FetchedPath, runPath |-> FetchedPath ],
    [ path |-> FetchedPath, runPath |-> JoinPath(<< FetchedPath, << "wd" >> >>) ] }

FnCalls ==
  { [ op |-> "Validate", content |-> c, done |-> FALSE, err |-> NilErr ] :
      c \in Contents }
  \cup
  { [ op |-> "MapJunitToExecutionResults", out |-> << "PASS" >>, suites |-> s,
      done |-> FALSE, result |-> UnsetResult ] : s \in Reports(MaxSuites, MaxCases) }
  \cup
  { [ op |-> "BuildGinkgoArgs", params |-> p, path |-> pp.path,
      runPath |-> pp.runPath, results |-> << >> ] :
      p \in ResolvedParams, pp \in PathPairs }

InitFn ==
  /\ pc = "Idle"
  /\ r = IdleRunner
  /\ input = IdleExecution
  /\ execution = input
  /\ RunLocalsInit
  /\ call \in FnCalls

CallValidate ==
  /\ call.op = "Validate"
  /\ ~call.done
  /\ call' = [ call EXCEPT !.done = TRUE, !.err = Validate(call.content) ]
  /\ UNCHANGED runVars

CallMapJunit ==
  /\ call.op = "MapJunitToExecutionResults"
  /\ ~call.done
  /\ call' = [ call EXCEPT !.done = TRUE,
                           !.result = MapJunitToExecutionResults(call.out, call.suites) ]
  /\ UNCHANGED runVars

\* BuildGinkgoArgs called up to twice on the same arguments
CallBuildGinkgoArgs ==
  /\ call.op = "BuildGinkgoArgs"
  /\ Len(call.results) < 2
  /\ \E order \in Orders(DOMAIN call.params) :
       call' = [ call EXCEPT !.results =
                   Append(@, BuildGinkgoArgs(call.params, call.path, call.runPath, order)) ]
  /\ UNCHANGED runVars

NextFn ==
  \/ CallValidate
  \/ CallMapJunit
  \/ CallBuildGinkgoArgs

SpecFn == InitFn /\ [][NextFn]_vars

(* ------------------------------- claims -------------------------------- *)
Called(op) == \E i \in DOMAIN calls : calls[i].op = op
InSeq(x, sq) == \E i \in DOMAIN sq : sq[i] = x

\* Run has built the argument vector and the pass-through vector
ArgsBuilt == pc = "ReportDirPreparing" \/ Called("Stat")

\* Run got past relocation and returned an Execution Result
ReturnedResult == pc = "Returned" /\ Called("IngestFile")

MapperReturned == call.op = "MapJunitToExecutionResults" /\ call.done

\* C1: the overall status of MapJunitToExecutionResults is "failed" exactly when
\* some produced step is "failed", and a report without cases gives "passed"
\* with no steps.
C1_StatusFailedIffSomeStepFailed ==
  MapperReturned =>
    /\ (call.result.Status = FAILED) <=>
         (\E i \in DOMAIN call.result.Steps : call.result.Steps[i].Status = FAILED)
    /\ SuiteCases(call.suites) = << >> =>
         call.result.Status = PASSED /\ call.result.Steps = << >>

\* C2: a result returned after relocation carries the invocation error and the
\* report-parse error whenever they occurred, and keeps the computed steps, also
\* when scraping failed.
C2_BothErrorsAttached ==
  ReturnedResult =>
    /\ err # NilErr => InSeq(err, result.Errors)
    /\ serr # NilErr => InSeq(serr, result.Errors)

\* the recognized non-target-path keys the caller overrides with the empty string
EmptyOverrides ==
  { k \in (DOMAIN input.Variables) \cap (ParamKeys \ { TestPackageKey }) :
      input.Variables[k].Value = EmptyStr }

\* C3: when a recognized non-target-path key is overridden with the empty
\* string, it contributes no token, so every token of the argument vector of
\* BuildGinkgoArgs is non-empty.
C3_EmptyOverrideGivesNoToken ==
  (ArgsBuilt /\ EmptyOverrides # { }) =>
    \A i \in DOMAIN ginkgoArgs : ginkgoArgs[i] # EmptyStr

\* C4: after FindGinkgoParams an overridden recognized key resolves to the
\* override and is gone from the variable mapping; a recognized key without
\* override resolves to its default when that is non-empty and is absent
\* otherwise; unrecognized variables stay unchanged, and nothing else stays.
C4_ResolverPostcondition ==
  ArgsBuilt =>
    /\ DOMAIN ginkgoParams \subseteq ParamKeys
    /\ \A k \in ParamKeys :
         IF k \in DOMAIN input.Variables
           THEN /\ k \in DOMAIN ginkgoParams
                /\ ginkgoParams[k] = input.Variables[k].Value
                /\ k \notin DOMAIN execution.Variables
           ELSE IF ginkgoDefaultParams[k] # EmptyStr
                  THEN k \in DOMAIN ginkgoParams /\ ginkgoParams[k] = ginkgoDefaultParams[k]
                  ELSE k \notin DOMAIN ginkgoParams
    /\ DOMAIN execution.Variables = (DOMAIN input.Variables) \ ParamKeys
    /\ \A k \in DOMAIN execution.Variables : execution.Variables[k] = input.Variables[k]

\* resolution ran on a recognized override next to an unrecognized variable
C4_Witness ==
  /\ ArgsBuilt
  /\ "GinkgoFocusFilter" \in DOMAIN input.Variables
  /\ "custom" \in DOMAIN input.Variables
  /\ "custom" \in DOMAIN execution.Variables
  /\ ginkgoParams["GinkgoFocusFilter"] = << "MyFeature" >>
  /\ ginkgoParams["GinkgoRecursive"] = << "-r" >>

\* the variables of the caller whose key is not in the Parameter Table
Unrecognized == (DOMAIN input.Variables) \ ParamKeys
FlagOf(k) == << "--", k, "=" >> \o input.Variables[k].Value

\* C5: the pass-through vector of Run holds one "--name=value" flag for each
\* unrecognized variable and none for a recognized one, then the positional
\* arguments in their order, after exactly one "--"; it is empty when there is
\* neither a flag nor a positional argument.
C5_PassThroughVector ==
  ArgsBuilt =>
    LET n  == Cardinality(Unrecognized)
        pt == ginkgoPassThroughFlags
    IN  IF n + Len(input.Args) = 0
          THEN pt = << >>
          ELSE /\ Len(pt) = 1 + n + Len(input.Args)
               /\ pt[1] = << "--" >>
               /\ \A i \in 2..Len(pt) : pt[i] # << "--" >>
               /\ { pt[i] : i \in 2..(n+1) } = { FlagOf(k) : k \in Unrecognized }
               /\ SubSeq(pt, n+2, Len(pt)) = input.Args

\* a recognized key overridden with "", an unrecognized variable and two arguments
C5_Witness ==
  /\ ArgsBuilt
  /\ "GinkgoRecursive" \in DOMAIN input.Variables
  /\ input.Variables["GinkgoRecursive"].Value = EmptyStr
  /\ Unrecognized = { "custom" }
  /\ ginkgoPassThroughFlags =
       << << "--" >>, << "--", "custom", "=", "1" >>, << "extra" >>, << "more" >> >>

ValidateReturned == call.op = "Validate" /\ call.done

\* C6: Validate returns no error exactly when the content is present, has a
\* repository with a branch or a commit, and is not single-file content; the
\* error is that of the first failing check in this order.
C6_ValidateFirstFailingCheck ==
  ValidateReturned =>
    LET c == call.content IN
      /\ (call.err = NilErr) <=>
           /\ ~c.Nil
           /\ ~c.Repository.Nil
           /\ c.Repository.Branch # EmptyStr \/ c.Repository.Commit # EmptyStr
           /\ ~c.IsFile
      /\ c.Nil => call.err = "validate: no content"
      /\ (~c.Nil /\ c.Repository.Nil) => call.err = "validate: repository is nil"
      /\ (~c.Nil /\ ~c.Repository.Nil /\ c.Repository.Branch = EmptyStr
            /\ c.Repository.Commit = EmptyStr) =>
           call.err = "validate: no branch or commit"
      /\ (~c.Nil /\ c.IsFile) => call.err # NilErr

\* single-file content whose repository names only a commit is rejected as a file
C6_Witness ==
  /\ ValidateReturned
  /\ ~call.content.Nil
  /\ call.content.IsFile
  /\ ~call.content.Repository.Nil
  /\ call.content.Repository.Branch = EmptyStr
  /\ call.content.Repository.Commit # EmptyStr
  /\ call.err = "validate: single file"

\* the Execution of the end-to-end scenario: Recursive overridden with "",
\* FocusFilter overridden with "MyFeature", one positional argument "extra"
Scenario ==
  /\ DOMAIN input.Variables = { "GinkgoRecursive", "GinkgoFocusFilter" }
  /\ input.Variables["GinkgoRecursive"].Value = EmptyStr
  /\ input.Variables["GinkgoFocusFilter"].Value = << "MyFeature" >>
  /\ input.Args = << << "extra" >> >>

\* the positions of the argument vector that hold the token t
Positions(t) == { i \in DOMAIN ginkgoArgs : ginkgoArgs[i] = t }

BuilderCalledTwice == call.op = "BuildGinkgoArgs" /\ Len(call.results) = 2

\* C8: two calls of BuildGinkgoArgs on the same Resolved Parameters (two or
\* more non-target-path keys) and the same path pair give the same vector.
C8_BuilderDeterministic ==
  (BuilderCalledTwice /\ Cardinality((DOMAIN call.params) \ { TestPackageKey }) >= 2) =>
    call.results[1] = call.results[2]

\* the conditions Validate asks of a content descriptor
ValidContent(c) ==
  /\ ~c.Nil
  /\ ~c.Repository.Nil
  /\ c.Repository.Branch # EmptyStr \/ c.Repository.Commit # EmptyStr
  /\ ~c.IsFile

ValidationErrors ==
  { "validate: no content", "validate: repository is nil",
    "validate: no branch or commit", "validate: single file" }

\* the stages before the invocation that can fail, and the error each returns
PreparationOps == { "Setenv", "Fetch", "Mkdir" }
StageError(op) ==
  CASE op = "Setenv" -> "setting env var"
    [] op = "Fetch"  -> "fetch error"
    [] op = "Mkdir"  -> "mkdir error"
LaterOps == { "Run", "Rename", "IngestFile", "Scrape" }

\* the calls Run makes before the invocation when every stage succeeds
PreparationCalls(withMkdir) ==
  [ i \in 1..Cardinality(DOMAIN input.Envs) |-> "Setenv" ]
    \o << "Fetch", "Stat" >> \o (IF withMkdir THEN << "Mkdir" >> ELSE << >>)

ReportKeys == { "GinkgoJsonReport", "GinkgoJunitReport", "GinkgoTeamCityReport" }

\* C10: after an invocation that returned an error, in a run that no relocation
\* failure ended, every report kind with a non-empty value was relocated, the
\* report was parsed, scraping ran when enabled, and the result carries the
\* captured output and the invocation error.
C10_InvocationErrorNotLost ==
  (/\ pc = "Returned"
   /\ Called("Run")
   /\ err # NilErr
   /\ \A i \in DOMAIN calls : calls[i].op = "Rename" => calls[i].ok) =>
    /\ \A k \in ReportKeys :
         MapGet(ginkgoParams, k) # EmptyStr =>
           \E i \in DOMAIN calls : calls[i].op = "Rename" /\ calls[i].arg = k
    /\ Called("IngestFile")
    /\ r.ScrapperEnabled => Called("Scrape")
    /\ result.Output = out
    /\ InSeq(err, result.Errors)

\* the number of tokens a value gives when split on the space
TokenCount(v) == 1 + Cardinality({ i \in DOMAIN v : v[i] = SP })

RECURSIVE FlagTokenCount(_)
\* the number of tokens the keys K of the Resolved Parameters give together
FlagTokenCount(K) ==
  IF K = { } THEN 0
  ELSE LET k == CHOOSE x \in K : TRUE
       IN  TokenCount(ginkgoParams[k]) + FlagTokenCount(K \ { k })

\* the target-path token the four cases ask for, none in the fourth
TargetPathTokens ==
  LET pkg == MapGet(ginkgoParams, TestPackageKey) IN
    IF pkg # EmptyStr /\ path # runPath THEN << path \o << "/" >> \o pkg >>
    ELSE IF pkg # EmptyStr /\ path = runPath THEN << pkg >>
    ELSE IF pkg = EmptyStr /\ path # runPath THEN << path >>
    ELSE << >>

\* C11: the argument vector of BuildGinkgoArgs is the flag tokens followed by
\* the target-path token of the case at hand (the joined path, the bare target
\* path, the bare content path, or none), and no flag token is the target-path
\* value.
C11_TargetPathTokenLast ==
  ArgsBuilt =>
    LET n == FlagTokenCount((DOMAIN ginkgoParams) \ { TestPackageKey }) IN
      /\ Len(ginkgoArgs) = n + Len(TargetPathTokens)
      /\ SubSeq(ginkgoArgs, n + 1, Len(ginkgoArgs)) = TargetPathTokens
      /\ MapGet(ginkgoParams, TestPackageKey) # EmptyStr =>
           \A i \in 1..n : ginkgoArgs[i] # ginkgoParams[TestPackageKey]

\* the target path was joined onto a content path that differs from the run path
C11_Witness ==
  /\ ArgsBuilt
  /\ MapGet(ginkgoParams, TestPackageKey) = << "pkgs" >>
  /\ path # runPath
  /\ Len(ginkgoArgs) > 0
  /\ ginkgoArgs[Len(ginkgoArgs)] = << "data", "/", "repo", "/", "pkgs" >>

\* C12: whatever the three report parameters resolve to, Run never terminates
\* abnormally while it takes the second token of a report value as file name.
C12_NoAbnormalTermination == pc # "Panicked"

====
